---- MODULE Spec2Model ----
(***************************************************************************)
(* A model of solutions/interpret.py: the ExtendedInterpreter stack        *)
(* machine (fields bytecode, locals, stack, pc, done), its step_* handlers *)
(* and the bounded loop of interpret(limit).                               *)
(*                                                                         *)
(* Python lists are objects passed by reference, so the lists held in the  *)
(* field locals live in a heap and the field holds a reference.  The stack *)
(* list is created fresh by create_interpreter (stack=[]) and is owned by  *)
(* one interpreter, so it is kept by value.  The front of the stack list   *)
(* (index 0) is the top; pc is a 0-based index into bytecode.              *)
(***************************************************************************)
EXTENDS Integers, Sequences, FiniteSets, TLC

\* ---------------------------------------------------------------- bounds
MaxLen == 3          \* longest enumerated instruction sequence
MaxInt == 2          \* magnitude of the negative push literal and of the integer inputs
MaxLimit == 4        \* largest enumerated step limit
MaxTarget == 1       \* jump targets range over 0..MaxTarget
MaxIndex == 1        \* load/store slot indices range over 0..MaxIndex
PairLen == 2         \* longest instruction sequence of a pair of runs

DefaultLimit == 100  \* def interpret(self, limit=100)

\* ---------------------------------------------------------------- values
\* A Python value on the stack or in a local slot: an int, or a bool (bool
\* is a subclass of int in Python: True == 1, False == 0, and arithmetic on
\* bools yields ints).
IntV(n) == [t |-> "int", n |-> n]
BoolV(b) == [t |-> "bool", n |-> IF b THEN 1 ELSE 0]

\* The field done / the value returned by interpret: None, a string or a
\* value popped by ireturn.
None == [k |-> "none", s |-> "", v |-> IntV(0)]
Str(s) == [k |-> "str", s |-> s, v |-> IntV(0)]
Val(v) == [k |-> "val", s |-> "", v |-> v]

\* Python truthiness, as tested by `if self.done:`.
Truthy(d) ==
  CASE d.k = "none" -> FALSE
    [] d.k = "str" -> d.s # ""
    [] OTHER -> d.v.n # 0

\* Python's // on ints (floor division); TLC's \div rounds toward minus
\* infinity for either sign of the divisor.
TruncDiv(a, b) ==
  LET q == (IF a < 0 THEN -a ELSE a) \div (IF b < 0 THEN -b ELSE b)
  IN IF (a < 0) = (b < 0) THEN q ELSE -q
FloorDiv(a, b) == a \div b

\* ---------------------------------------------------------- instructions
\* An instruction record of the decompiled bytecode: bc["opr"] and the
\* fields the handlers read (bc["value"]["value"], bc["index"],
\* bc["target"], bc["type"]); a field an opcode does not carry is 0 / "".
Instr(opr, value, index, target, type) ==
  [opr |-> opr, value |-> value, index |-> index, target |-> target, type |-> type]
Op(opr) == Instr(opr, 0, 0, 0, "")
Push(n) == Instr("push", n, 0, 0, "")
Load(k) == Instr("load", 0, k, 0, "")
Store(k) == Instr("store", 0, k, 0, "")
IfGe(t) == Instr("if_icmpge", 0, 0, t, "")
IfNe(t) == Instr("if_icmpne", 0, 0, t, "")
Return(ty) == Instr("return", 0, 0, 0, ty)

\* The opcodes for which the class defines a step_ method.
Handlers == {"push", "pop", "dup", "swap", "nop", "add", "subtract",
             "multiply", "divide", "if_icmpge", "if_icmpne", "load",
             "store", "return", "ireturn"}

\* ------------------------------------------------------- machine handlers
\* A handler works on the fields of one interpreter: st.stack, st.pc,
\* st.locals (the contents of the list the field refers to), st.done; st.exc
\* is the exception the handler raised ("" for none).  list.pop(0), list[0]
\* and list[k] = v raise IndexError when the index is out of range, and the
\* statements executed before the raise keep their effect.
Raise(st) == [st EXCEPT !.exc = "IndexError"]

\* self.done = d; st.wrote records that the handler assigned the field.
SetDone(st, d) == [st EXCEPT !.done = d, !.wrote = TRUE]

step_push(st, bc) ==
  [st EXCEPT !.stack = <<IntV(bc.value)>> \o @, !.pc = @ + 1]

step_pop(st, bc) ==
  IF Len(st.stack) = 0 THEN Raise(st)
  ELSE [st EXCEPT !.stack = Tail(@), !.pc = @ + 1]

step_dup(st, bc) ==
  IF Len(st.stack) = 0 THEN Raise(st)
  ELSE [st EXCEPT !.stack = <<Head(@)>> \o @, !.pc = @ + 1]

step_swap(st, bc) ==
  IF Len(st.stack) < 2 THEN Raise(st)
  ELSE [st EXCEPT !.stack = <<@[2], @[1]>> \o Tail(Tail(@)), !.pc = @ + 1]

step_nop(st, bc) == [st EXCEPT !.pc = @ + 1]

\* The two pops shared by the binary handlers: val1 = pop(0), val2 = pop(0).
\* The first pop has happened when the second one raises.
PopTwoFails(st) == Len(st.stack) < 2
PopTwoRaise(st) ==
  IF Len(st.stack) = 0 THEN Raise(st)
  ELSE Raise([st EXCEPT !.stack = Tail(@)])

step_add(st, bc) ==
  IF PopTwoFails(st) THEN PopTwoRaise(st)
  ELSE LET val1 == st.stack[1]
           val2 == st.stack[2]
       IN [st EXCEPT !.stack = <<IntV(val1.n + val2.n)>> \o Tail(Tail(@)),
                     !.pc = @ + 1]

step_subtract_swapped(st, bc) ==
  IF PopTwoFails(st) THEN PopTwoRaise(st)
  ELSE LET val1 == st.stack[1]
           val2 == st.stack[2]
       IN [st EXCEPT !.stack = <<IntV(val1.n - val2.n)>> \o Tail(Tail(@)),
                     !.pc = @ + 1]
step_subtract(st, bc) ==
  IF PopTwoFails(st) THEN PopTwoRaise(st)
  ELSE LET val1 == st.stack[1]
           val2 == st.stack[2]
       IN [st EXCEPT !.stack = <<IntV(val2.n - val1.n)>> \o Tail(Tail(@)),
                     !.pc = @ + 1]

step_multiply(st, bc) ==
  IF PopTwoFails(st) THEN PopTwoRaise(st)
  ELSE LET val1 == st.stack[1]
           val2 == st.stack[2]
       IN [st EXCEPT !.stack = <<IntV(val1.n * val2.n)>> \o Tail(Tail(@)),
                     !.pc = @ + 1]

step_divide_dividend(st, bc) ==
  IF PopTwoFails(st) THEN PopTwoRaise(st)
  ELSE LET val1 == st.stack[1]
           val2 == st.stack[2]
       IN IF val2.n = 0
          THEN SetDone([st EXCEPT !.stack = Tail(Tail(@)), !.pc = @ + 1],
                       Str("divide by zero"))
          ELSE IF val1.n = 0
          THEN [st EXCEPT !.stack = Tail(Tail(@)), !.exc = "ZeroDivisionError"]
          ELSE [st EXCEPT !.stack = <<IntV(FloorDiv(val2.n, val1.n))>> \o Tail(Tail(@)),
                          !.pc = @ + 1]
step_divide_early(st, bc) ==
  IF PopTwoFails(st) THEN PopTwoRaise(st)
  ELSE LET val1 == st.stack[1]
           val2 == st.stack[2]
       IN IF val1.n = 0
          THEN SetDone([st EXCEPT !.stack = Tail(Tail(@))], Str("divide by zero"))
          ELSE [st EXCEPT !.stack = <<IntV(FloorDiv(val2.n, val1.n))>> \o Tail(Tail(@)),
                          !.pc = @ + 1]
step_divide(st, bc) ==
  IF PopTwoFails(st) THEN PopTwoRaise(st)
  ELSE LET val1 == st.stack[1]
           val2 == st.stack[2]
       IN IF val1.n = 0
          THEN SetDone([st EXCEPT !.stack = Tail(Tail(@)), !.pc = @ + 1],
                       Str("divide by zero"))
          ELSE [st EXCEPT !.stack = <<IntV(FloorDiv(val2.n, val1.n))>> \o Tail(Tail(@)),
                          !.pc = @ + 1]

step_if_icmpge_swapped(st, bc) ==
  IF PopTwoFails(st) THEN PopTwoRaise(st)
  ELSE LET val1 == st.stack[1]
           val2 == st.stack[2]
       IN [st EXCEPT !.stack = Tail(Tail(@)),
                     !.pc = IF val1.n >= val2.n THEN bc.target ELSE @ + 1]
step_if_icmpge_strict(st, bc) ==
  IF PopTwoFails(st) THEN PopTwoRaise(st)
  ELSE LET val1 == st.stack[1]
           val2 == st.stack[2]
       IN [st EXCEPT !.stack = Tail(Tail(@)),
                     !.pc = IF val2.n > val1.n THEN bc.target ELSE @ + 1]
step_if_icmpge(st, bc) ==
  IF PopTwoFails(st) THEN PopTwoRaise(st)
  ELSE LET val1 == st.stack[1]
           val2 == st.stack[2]
       IN [st EXCEPT !.stack = Tail(Tail(@)),
                     !.pc = IF val2.n >= val1.n THEN bc.target ELSE @ + 1]

step_if_icmpne(st, bc) ==
  IF PopTwoFails(st) THEN PopTwoRaise(st)
  ELSE LET val1 == st.stack[1]
           val2 == st.stack[2]
       IN [st EXCEPT !.stack = Tail(Tail(@)),
                     !.pc = IF val1.n # val2.n THEN bc.target ELSE @ + 1]

\* value = self.locals[index] raises before anything is changed.
step_load(st, bc) ==
  IF bc.index >= Len(st.locals) THEN Raise(st)
  ELSE [st EXCEPT !.stack = <<st.locals[bc.index + 1]>> \o @, !.pc = @ + 1]

\* self.locals[index] = self.stack.pop(0): the pop is evaluated first, then
\* the item assignment, which raises for an index past the end of the list.
step_store_other(st, bc) ==
  IF Len(st.stack) = 0 THEN Raise(st)
  ELSE IF bc.index >= Len(st.locals) THEN Raise([st EXCEPT !.stack = Tail(@)])
  ELSE [st EXCEPT !.locals = [@ EXCEPT ![Len(st.locals) - bc.index] = Head(st.stack)],
                  !.stack = Tail(@),
                  !.pc = @ + 1]
step_store_grow(st, bc) ==
  IF Len(st.stack) = 0 THEN Raise(st)
  ELSE IF bc.index > Len(st.locals) THEN Raise([st EXCEPT !.stack = Tail(@)])
  ELSE IF bc.index = Len(st.locals)
  THEN [st EXCEPT !.locals = Append(@, Head(st.stack)),
                  !.stack = Tail(@),
                  !.pc = @ + 1]
  ELSE [st EXCEPT !.locals = [@ EXCEPT ![bc.index + 1] = Head(st.stack)],
                  !.stack = Tail(@),
                  !.pc = @ + 1]
step_store(st, bc) ==
  IF Len(st.stack) = 0 THEN Raise(st)
  ELSE IF bc.index >= Len(st.locals) THEN Raise([st EXCEPT !.stack = Tail(@)])
  ELSE [st EXCEPT !.locals = [@ EXCEPT ![bc.index + 1] = Head(st.stack)],
                  !.stack = Tail(@),
                  !.pc = @ + 1]

step_return_nopop(st, bc) == SetDone(st, Str("ok"))
step_return(st, bc) ==
  IF bc.type # "None"
  THEN IF Len(st.stack) = 0 THEN Raise(st)
       ELSE SetDone([st EXCEPT !.stack = Tail(@)], Str("ok"))
  ELSE SetDone(st, Str("ok"))

step_ireturn(st, bc) ==
  IF Len(st.stack) = 0 THEN Raise(st)
  ELSE SetDone([st EXCEPT !.stack = Tail(@)], Val(Head(st.stack)))

\* getattr(self, "step_" + next_instruction["opr"], None) followed by
\* fn(next_instruction).
Dispatch(st, bc) ==
  CASE bc.opr = "push" -> step_push(st, bc)
    [] bc.opr = "pop" -> step_pop(st, bc)
    [] bc.opr = "dup" -> step_dup(st, bc)
    [] bc.opr = "swap" -> step_swap(st, bc)
    [] bc.opr = "nop" -> step_nop(st, bc)
    [] bc.opr = "add" -> step_add(st, bc)
    [] bc.opr = "subtract" -> step_subtract(st, bc)
    [] bc.opr = "multiply" -> step_multiply(st, bc)
    [] bc.opr = "divide" -> step_divide(st, bc)
    [] bc.opr = "if_icmpge" -> step_if_icmpge(st, bc)
    [] bc.opr = "if_icmpne" -> step_if_icmpne(st, bc)
    [] bc.opr = "load" -> step_load(st, bc)
    [] bc.opr = "store" -> step_store(st, bc)
    [] bc.opr = "return" -> step_return(st, bc)
    [] bc.opr = "ireturn" -> step_ireturn(st, bc)

\* f"can't handle {next_instruction['opr']!r}"
CantHandleMsgPlain(opr) == "can't handle " \o opr
CantHandleMsg(opr) == "can't handle '" \o opr \o "'"

\* ------------------------------------------------------------------ state
VARIABLES
  bytecode,    \* the instruction list, shared read-only by every interpreter
  heap,        \* the list objects handed to create_interpreter, by reference
  given,       \* the contents of those lists when the interpreters were created
  locals,      \* locals[m]: reference of the list in field locals
  stack,       \* stack[m]: field stack, front of the sequence is the top
  pc,          \* pc[m]: field pc (0-based)
  done,        \* done[m]: field done
  phase,       \* phase[m]: "idle" (constructed), "running" (inside interpret),
               \*           "returned", "raised" (an exception left interpret)
  limit,       \* limit[m]: argument of the interpret call
  i,           \* i[m]: number of loop iterations completed without break
  result,      \* result[m]: the value interpret returned
  dispatches,  \* dispatches[m]: number of fn(next_instruction) calls made
  outcomes,    \* outcomes[m]: number of those calls that assigned self.done
  before,      \* before[m]: the fields as they were when the latest call began
  earlier      \* earlier[m]: what the previous interpret call on m returned,
               \*             None while interpret was called at most once

vars == <<bytecode, heap, given, locals, stack, pc, done, phase, limit, i,
          result, dispatches, outcomes, before, earlier>>

Machines == DOMAIN pc

\* ----------------------------------------------------------------- inputs
SeqsUpTo(S, n) == UNION {[1..k -> S] : k \in 0..n}

\* Push literals: a negative one, zero and a positive one.
PushVals == {-MaxInt, 0, 1}
Core == {Push(n) : n \in PushVals} \cup {Op("ireturn")}
PairCore == {Push(0), Push(1), Op("ireturn")}
StackOps == {Op("pop"), Op("dup"), Op("swap"), Op("nop")}
ArithOps == {Op("add"), Op("subtract"), Op("multiply"), Op("divide")}
BranchOps == {IfGe(t) : t \in 0..MaxTarget} \cup {IfNe(t) : t \in 0..MaxTarget}
LocalOps == {Load(k) : k \in 0..MaxIndex} \cup {Store(k) : k \in 0..MaxIndex}
ExitOps == {Return("None"), Return("int"), Op("get"), Op("invoke")}
Groups == {StackOps, ArithOps, BranchOps, LocalOps, ExitOps}

\* Instruction sequences: literals and ireturn mixed with one family of
\* opcodes.
Programs(n) == UNION {SeqsUpTo(Core \cup G, n) : G \in Groups}
PairPrograms(n) == UNION {SeqsUpTo(PairCore \cup G, n) : G \in Groups}

\* Caller-supplied inputs, as parsed by __main__: ints and booleans.
InputLists == {<<>>, <<IntV(-1)>>, <<BoolV(TRUE)>>, <<BoolV(FALSE), IntV(MaxInt)>>}

PairInputs == {<<>>, <<BoolV(FALSE), IntV(MaxInt)>>}

\* create_interpreter(inputs): locals=inputs, stack=[], pc=0, done=None.
Created(code, lists) ==
  /\ bytecode = code
  /\ heap = lists
  /\ given = lists
  /\ locals = [m \in DOMAIN lists |-> m]
  /\ stack = [m \in DOMAIN lists |-> <<>>]
  /\ pc = [m \in DOMAIN lists |-> 0]
  /\ done = [m \in DOMAIN lists |-> None]
  /\ phase = [m \in DOMAIN lists |-> "idle"]
  /\ limit = [m \in DOMAIN lists |-> 0]
  /\ i = [m \in DOMAIN lists |-> 0]
  /\ result = [m \in DOMAIN lists |-> None]
  /\ dispatches = [m \in DOMAIN lists |-> 0]
  /\ outcomes = [m \in DOMAIN lists |-> 0]
  /\ before = [m \in DOMAIN lists |->
                 [stack |-> <<>>, pc |-> 0, locals |-> lists[m], done |-> None,
                  exc |-> "", wrote |-> FALSE]]
  /\ earlier = [m \in DOMAIN lists |-> None]

\* The instruction sequences and inputs the documentation works through.
Examples ==
  {[code |-> <<Push(10), Push(3), Op("subtract"), Op("ireturn")>>, inputs |-> <<>>],
   [code |-> <<Push(-7), Push(2), Op("divide"), Op("ireturn")>>, inputs |-> <<>>],
   [code |-> <<Push(5), Push(3), Op("add"), Op("ireturn")>>, inputs |-> <<>>],
   [code |-> <<Load(0), Load(1), IfGe(4), Push(1), Op("ireturn"), Push(0),
               Op("ireturn")>>,
    inputs |-> <<IntV(3), IntV(5)>>]}

\* Every family of programs is run on the inputs of PairInputs; the programs
\* that load and store are run on every input list.
Init ==
  \/ \E code \in Programs(MaxLen), inp \in PairInputs : Created(code, <<inp>>)
  \/ \E code \in SeqsUpTo(Core \cup LocalOps, MaxLen), inp \in InputLists :
       Created(code, <<inp>>)
  \/ \E ex \in Examples : Created(ex.code, <<ex.inputs>>)

\* Two interpreters over the same instruction list, each created from its
\* own list holding the same inputs.
InitPair ==
  \E code \in PairPrograms(PairLen), inp \in PairInputs : Created(code, <<inp, inp>>)

\* ------------------------------------------------------------------ loop
InRange(m) == pc[m] < Len(bytecode)
Fetched(m) == bytecode[pc[m] + 1]
Fields(m) == [stack |-> stack[m], pc |-> pc[m], locals |-> heap[locals[m]],
              done |-> done[m], exc |-> "", wrote |-> FALSE]

\* The step limits a caller passes; interpret() uses the default.
Limits == (0..MaxLimit) \cup {DefaultLimit}

\* len(range(limit)): the number of iterations of `for i in range(limit)`.
RangeLenOr(L) == IF L = 0 THEN DefaultLimit ELSE L
RangeLen(L) == IF L < 0 THEN 0 ELSE L

IteratingInclusive(m) == phase[m] = "running" /\ i[m] <= RangeLen(limit[m])
Iterating(m) == phase[m] = "running" /\ i[m] < RangeLen(limit[m])

\* interpret(limit) is called on a constructed interpreter.
interpret(m) ==
  /\ phase[m] = "idle"
  /\ \E L \in Limits : limit' = [limit EXCEPT ![m] = L]
  /\ phase' = [phase EXCEPT ![m] = "running"]
  /\ i' = [i EXCEPT ![m] = 0]
  /\ UNCHANGED <<bytecode, heap, given, locals, stack, pc, done, result,
                 dispatches, outcomes, before, earlier>>

\* next_instruction = self.bytecode[self.pc] raises IndexError.
FetchFault(m) ==
  /\ Iterating(m)
  /\ ~InRange(m)
  /\ phase' = [phase EXCEPT ![m] = "raised"]
  /\ UNCHANGED <<bytecode, heap, given, locals, stack, pc, done, limit, i,
                 result, dispatches, outcomes, before, earlier>>

\* No step_ method for the opcode: return f"can't handle {opr!r}".
CantHandle(m) ==
  /\ Iterating(m)
  /\ InRange(m)
  /\ Fetched(m).opr \notin Handlers
  /\ result' = [result EXCEPT ![m] = Str(CantHandleMsg(Fetched(m).opr))]
  /\ phase' = [phase EXCEPT ![m] = "returned"]
  /\ UNCHANGED <<bytecode, heap, given, locals, stack, pc, done, limit, i,
                 dispatches, outcomes, before, earlier>>

\* One iteration of the loop whose instruction has a handler: dispatch, then
\* `if self.done: break` and, after a break, `return self.done`.
Step(m, opr) ==
  /\ Iterating(m)
  /\ InRange(m)
  /\ Fetched(m).opr = opr
  /\ LET r == Dispatch(Fields(m), Fetched(m))
     IN /\ stack' = [stack EXCEPT ![m] = r.stack]
        /\ pc' = [pc EXCEPT ![m] = r.pc]
        /\ heap' = [heap EXCEPT ![locals[m]] = r.locals]
        /\ done' = [done EXCEPT ![m] = r.done]
        /\ dispatches' = [dispatches EXCEPT ![m] = @ + 1]
        /\ outcomes' = [outcomes EXCEPT ![m] = IF r.wrote THEN @ + 1 ELSE @]
        /\ before' = [before EXCEPT ![m] = Fields(m)]
        /\ IF r.exc # ""
           THEN /\ phase' = [phase EXCEPT ![m] = "raised"]
                /\ UNCHANGED <<i, result>>
           ELSE IF Truthy(r.done)
           THEN /\ phase' = [phase EXCEPT ![m] = "returned"]
                /\ result' = [result EXCEPT ![m] = r.done]
                /\ UNCHANGED i
           ELSE /\ i' = [i EXCEPT ![m] = @ + 1]
                /\ UNCHANGED <<phase, result>>
  /\ UNCHANGED <<bytecode, given, locals, limit, earlier>>

push(m) == Step(m, "push")
pop(m) == Step(m, "pop")
dup(m) == Step(m, "dup")
swap(m) == Step(m, "swap")
nop(m) == Step(m, "nop")
add(m) == Step(m, "add")
subtract(m) == Step(m, "subtract")
multiply(m) == Step(m, "multiply")
divide(m) == Step(m, "divide")
if_icmpge(m) == Step(m, "if_icmpge")
if_icmpne(m) == Step(m, "if_icmpne")
load(m) == Step(m, "load")
store(m) == Step(m, "store")
return(m) == Step(m, "return")
ireturn(m) == Step(m, "ireturn")

\* The for loop ran range(limit) to its end: the else clause sets
\* self.done = "out of time", and interpret returns self.done.
OutOfTime(m) ==
  /\ phase[m] = "running"
  /\ i[m] >= RangeLen(limit[m])
  /\ done' = [done EXCEPT ![m] = Str("out of time")]
  /\ result' = [result EXCEPT ![m] = Str("out of time")]
  /\ phase' = [phase EXCEPT ![m] = "returned"]
  /\ UNCHANGED <<bytecode, heap, given, locals, stack, pc, limit, i,
                 dispatches, outcomes, before, earlier>>

Next ==
  \/ \E m \in Machines : interpret(m)
  \/ \E m \in Machines : FetchFault(m)
  \/ \E m \in Machines : CantHandle(m)
  \/ \E m \in Machines : push(m)
  \/ \E m \in Machines : pop(m)
  \/ \E m \in Machines : dup(m)
  \/ \E m \in Machines : swap(m)
  \/ \E m \in Machines : nop(m)
  \/ \E m \in Machines : add(m)
  \/ \E m \in Machines : subtract(m)
  \/ \E m \in Machines : multiply(m)
  \/ \E m \in Machines : divide(m)
  \/ \E m \in Machines : if_icmpge(m)
  \/ \E m \in Machines : if_icmpne(m)
  \/ \E m \in Machines : load(m)
  \/ \E m \in Machines : store(m)
  \/ \E m \in Machines : return(m)
  \/ \E m \in Machines : ireturn(m)
  \/ \E m \in Machines : OutOfTime(m)

Spec == Init /\ [][Next]_vars

SpecPair == InitPair /\ [][Next]_vars

\* Two interpreters created by two create_interpreter(inputs) calls on one
\* and the same list: locals=inputs stores the caller's list itself, so both
\* fields locals refer to that list.
CreatedShared(code, inp) ==
  /\ bytecode = code
  /\ heap = <<inp>>
  /\ given = <<inp>>
  /\ locals = <<1, 1>>
  /\ stack = <<<<>>, <<>>>>
  /\ pc = <<0, 0>>
  /\ done = <<None, None>>
  /\ phase = <<"idle", "idle">>
  /\ limit = <<0, 0>>
  /\ i = <<0, 0>>
  /\ result = <<None, None>>
  /\ dispatches = <<0, 0>>
  /\ outcomes = <<0, 0>>
  /\ before = [m \in {1, 2} |->
                 [stack |-> <<>>, pc |-> 0, locals |-> inp, done |-> None,
                  exc |-> "", wrote |-> FALSE]]
  /\ earlier = <<None, None>>

\* A sequence that reads a slot, overwrites it and returns what it read.
ReadThenWrite == <<Load(0), Push(1), Store(0), Op("ireturn")>>

InitShared ==
  \/ \E code \in PairPrograms(PairLen), inp \in PairInputs : CreatedShared(code, inp)
  \/ CreatedShared(ReadThenWrite, <<IntV(MaxInt)>>)

SpecShared == InitShared /\ [][Next]_vars

\* interpret(limit) is called again on an interpreter whose previous call
\* returned: the fields are as that call left them, the loop starts anew.
Reinterpret(m) ==
  /\ phase[m] = "returned"
  /\ earlier[m] = None
  /\ earlier' = [earlier EXCEPT ![m] = result[m]]
  /\ \E L \in Limits : limit' = [limit EXCEPT ![m] = L]
  /\ phase' = [phase EXCEPT ![m] = "running"]
  /\ i' = [i EXCEPT ![m] = 0]
  /\ UNCHANGED <<bytecode, heap, given, locals, stack, pc, done, result,
                 dispatches, outcomes, before>>

InitReuse ==
  \E code \in PairPrograms(PairLen), inp \in PairInputs : Created(code, <<inp>>)

NextReuse ==
  \/ Next
  \/ \E m \in Machines : Reinterpret(m)

SpecReuse == InitReuse /\ [][NextReuse]_vars

\* interpret(limit) run to its end on an interpreter of its own: the loop as
\* a function of the fields st and the number k of iterations made.
RECURSIVE RunAlone(_, _, _)
RunAlone(st, k, L) ==
  IF k >= RangeLen(L) THEN [phase |-> "returned", result |-> Str("out of time")]
  ELSE IF st.pc >= Len(bytecode) THEN [phase |-> "raised", result |-> None]
  ELSE IF bytecode[st.pc + 1].opr \notin Handlers
  THEN [phase |-> "returned", result |-> Str(CantHandleMsg(bytecode[st.pc + 1].opr))]
  ELSE LET r == Dispatch(st, bytecode[st.pc + 1])
       IN IF r.exc # "" THEN [phase |-> "raised", result |-> None]
          ELSE IF Truthy(r.done) THEN [phase |-> "returned", result |-> r.done]
          ELSE RunAlone([r EXCEPT !.wrote = FALSE], k + 1, L)

\* ------------------------------------------------------------ properties
OutOfTimeStr == Str("out of time")
Finished(m) == phase[m] \in {"returned", "raised"}

\* This step is the loop iteration of m that calls the handler of opr.
Dispatching(m, opr) ==
  /\ phase[m] = "running"
  /\ i[m] < limit[m]
  /\ pc[m] < Len(bytecode)
  /\ bytecode[pc[m] + 1].opr = opr
  /\ dispatches'[m] = dispatches[m] + 1

\* Once interpret has returned or raised, nothing of the interpreter changes.
Halted(m) ==
  Finished(m) =>
    /\ dispatches'[m] = dispatches[m]
    /\ phase'[m] = phase[m]
    /\ result'[m] = result[m]
    /\ done'[m] = done[m]
    /\ pc'[m] = pc[m]
    /\ stack'[m] = stack[m]

\* C1: an ireturn dispatched on a non-empty stack whose top is the integer v
\* makes interpret return exactly v, and no instruction is dispatched after
\* it.
C1_IreturnReturnsTop ==
  [][\A m \in Machines :
       /\ (Dispatching(m, "ireturn") /\ stack[m] # <<>> /\ Head(stack[m]).t = "int")
            => (phase'[m] = "returned" /\ result'[m] = Val(Head(stack[m])))
       /\ Halted(m)]_vars

\* C2: done starts as None and is written at most once in a run; once it is
\* written no instruction is dispatched and it is never overwritten.
C2_DoneWrittenOnce ==
  /\ \A m \in Machines : done[m] = None
  /\ [][\A m \in Machines :
          done[m] # None => (done'[m] = done[m] /\ dispatches'[m] = dispatches[m])]_vars

\* C3: no precondition violation (pop of an empty or too short stack, slot
\* index outside locals, pc outside the instruction sequence) leaves
\* interpret as a fault: every run ends with an outcome interpret returns.
C3_NoFaultEscapes == \A m \in Machines : phase[m] # "raised"

\* C4: divide dispatched on at least two integers with top (the divisor) 0
\* makes interpret return "divide by zero" at that dispatch, whatever the
\* dividend, without a fault.
C4_DivideByZero ==
  [][\A m \in Machines :
       /\ (/\ Dispatching(m, "divide")
           /\ Len(stack[m]) >= 2
           /\ stack[m][1] = IntV(0)
           /\ stack[m][2].t = "int")
            => (phase'[m] = "returned" /\ result'[m] = Str("divide by zero"))
       /\ Halted(m)]_vars

C4_Witness ==
  \E m \in Machines :
    /\ phase[m] = "returned"
    /\ result[m] = Str("divide by zero")
    /\ dispatches[m] = 3
    /\ Len(bytecode) = 3
    /\ bytecode[1] = Push(-MaxInt)
    /\ bytecode[2] = Push(0)

\* C5: no run dispatches more than limit instructions, and a run that has
\* returned without any dispatched instruction setting an outcome and
\* without meeting an opcode that has no handler made exactly limit
\* dispatches and returned "out of time" (for limit 0: no dispatch at all).
C5_OutOfTimeAfterLimit ==
  \A m \in Machines :
    /\ dispatches[m] <= limit[m]
    /\ (/\ phase[m] = "returned"
        /\ outcomes[m] = 0
        /\ result[m] \notin {Str("can't handle 'get'"), Str("can't handle 'invoke'")})
         => (result[m] = OutOfTimeStr /\ dispatches[m] = limit[m])
    /\ (phase[m] = "returned" /\ limit[m] = 0)
         => (result[m] = OutOfTimeStr /\ dispatches[m] = 0)

C5_Witness ==
  \E m \in Machines :
    /\ phase[m] = "returned"
    /\ outcomes[m] = 0
    /\ result[m] = OutOfTimeStr
    /\ limit[m] >= 3
    /\ dispatches[m] = limit[m]

\* C6: of two runs over the same instructions and the same inputs, if the one
\* with the larger limit returned "out of time", the one with the smaller
\* limit returns "out of time" as well.
C6_BudgetMonotone ==
  \A a \in Machines, b \in Machines :
    (/\ phase[a] = "returned"
     /\ result[a] = OutOfTimeStr
     /\ Finished(b)
     /\ limit[b] < limit[a])
      => (phase[b] = "returned" /\ result[b] = OutOfTimeStr)

C6_Witness ==
  /\ Machines = {1, 2}
  /\ phase[1] = "returned" /\ result[1] = OutOfTimeStr
  /\ phase[2] = "returned" /\ result[2] = OutOfTimeStr
  /\ limit[2] < limit[1]
  /\ dispatches[2] >= 1
  /\ outcomes[1] >= 1

\* C7: fetching an instruction whose opcode has no handler makes interpret
\* return "can't handle '<opcode>'" at once: nothing is dispatched then or
\* later, and pc, stack and locals stay as they were before the fetch.
C7_CantHandle ==
  [][\A m \in Machines :
       /\ (/\ phase[m] = "running"
           /\ i[m] < limit[m]
           /\ pc[m] < Len(bytecode)
           /\ bytecode[pc[m] + 1].opr \in {"get", "invoke"}
           /\ <<phase[m], dispatches[m], pc[m], stack[m]>>'
                # <<phase[m], dispatches[m], pc[m], stack[m]>>)
            => /\ phase'[m] = "returned"
               /\ bytecode[pc[m] + 1].opr = "get" => result'[m] = Str("can't handle 'get'")
               /\ bytecode[pc[m] + 1].opr = "invoke"
                    => result'[m] = Str("can't handle 'invoke'")
               /\ dispatches'[m] = dispatches[m]
               /\ pc'[m] = pc[m]
               /\ stack'[m] = stack[m]
               /\ heap' = heap
       /\ Halted(m)]_vars

C7_Witness ==
  \E m \in Machines :
    /\ phase[m] = "returned"
    /\ result[m] = Str("can't handle 'get'")
    /\ dispatches[m] = 2
    /\ pc[m] = 2
    /\ Len(stack[m]) = 2

\* C8: subtract on a stack of at least two values replaces them by
\* (earlier-pushed) - (later-pushed) and advances pc by one; after push x,
\* push y, subtract the stack holds x - y (push 10, push 3, subtract: 7).
C8_SubtractOrder ==
  /\ [](\A m \in Machines :
          (/\ Len(bytecode) >= 3
           /\ bytecode[1].opr = "push"
           /\ bytecode[2].opr = "push"
           /\ bytecode[3].opr = "subtract"
           /\ dispatches[m] = 3)
            => (/\ stack[m] = <<IntV(bytecode[1].value - bytecode[2].value)>>
                /\ pc[m] = 3))
  /\ [][\A m \in Machines :
          (Dispatching(m, "subtract") /\ Len(stack[m]) >= 2)
            => /\ stack'[m] = <<IntV(stack[m][2].n - stack[m][1].n)>>
                                \o SubSeq(stack[m], 3, Len(stack[m]))
               /\ pc'[m] = pc[m] + 1]_vars

C8_Witness ==
  \E m \in Machines :
    /\ bytecode = <<Push(10), Push(3), Op("subtract"), Op("ireturn")>>
    /\ dispatches[m] = 3
    /\ stack[m] = <<IntV(7)>>

\* C9: divide with a non-zero divisor replaces the two operands by the floor
\* of (earlier-pushed) / (later-pushed), the largest integer q with
\* q * divisor <= dividend for a positive divisor (mirrored for a negative
\* one), and sets no outcome; push -7, push 2, divide leaves -4.
IsFloorQuotient(q, x, y) ==
  IF y > 0 THEN q * y <= x /\ x < (q + 1) * y
           ELSE q * y >= x /\ x > (q + 1) * y

C9_DivideFloors ==
  /\ [](\A m \in Machines :
          (/\ bytecode = <<Push(-7), Push(2), Op("divide"), Op("ireturn")>>
           /\ dispatches[m] = 3)
            => stack[m] = <<IntV(-4)>>)
  /\ [][\A m \in Machines :
          (/\ Dispatching(m, "divide")
           /\ Len(stack[m]) >= 2
           /\ stack[m][1].n # 0)
            => /\ Len(stack'[m]) = Len(stack[m]) - 1
               /\ Head(stack'[m]).t = "int"
               /\ IsFloorQuotient(Head(stack'[m]).n, stack[m][2].n, stack[m][1].n)
               /\ Tail(stack'[m]) = SubSeq(stack[m], 3, Len(stack[m]))
               /\ done'[m] = done[m]
               /\ outcomes'[m] = outcomes[m]
               /\ phase'[m] = "running"]_vars

C9_Witness ==
  \E m \in Machines :
    /\ bytecode = <<Push(-7), Push(2), Op("divide"), Op("ireturn")>>
    /\ dispatches[m] = 3
    /\ stack[m] = <<IntV(-4)>>
    /\ done[m] = None

\* C10: store k directly followed by load k, with k a valid slot and V on top
\* of the stack, ends with V on top of the stack and in slot k; the rest of
\* the stack and the other slots are as before the store.
C10_StoreLoadRoundTrip ==
  [][\A m \in Machines :
       (/\ Dispatching(m, "load")
        /\ dispatches[m] >= 1
        /\ bytecode[before[m].pc + 1].opr = "store"
        /\ bytecode[before[m].pc + 1].index = bytecode[pc[m] + 1].index
        /\ pc[m] = before[m].pc + 1
        /\ bytecode[pc[m] + 1].index < Len(before[m].locals)
        /\ before[m].stack # <<>>)
         => LET V == Head(before[m].stack)
                k == bytecode[pc[m] + 1].index
            IN /\ phase'[m] = "running"
               /\ stack'[m] = <<V>> \o Tail(before[m].stack)
               /\ heap'[locals[m]] = [before[m].locals EXCEPT ![k + 1] = V]]_vars

C10_Witness ==
  \E m \in Machines :
    /\ bytecode = <<Load(0), Store(1), Load(1)>>
    /\ dispatches[m] = 3
    /\ Len(stack[m]) = 1
    /\ Head(stack[m]) = BoolV(FALSE)
    /\ heap[locals[m]] = <<BoolV(FALSE), BoolV(FALSE)>>

\* The list the caller handed to create_interpreter for m: the object the
\* field locals refers to (locals=inputs makes no copy).
CallerList(m) == heap[locals[m]]

\* C11: a run leaves the caller's input list as it was before the run,
\* however many store instructions it dispatches.
C11_InputsUntouched ==
  \A m \in Machines : CallerList(m) = given[locals[m]]

\* This step is not a step of interpreter m.
NotMoving(m) ==
  /\ dispatches'[m] = dispatches[m]
  /\ phase'[m] = phase[m]

\* C12: two runs created from the same input list and interleaved in any
\* order share no mutable state: pc, stack and locals of a run change only in
\* its own steps, and each run ends as it ends when executed alone.
C12_RunsIndependent ==
  /\ [][\A m \in Machines :
          NotMoving(m) =>
            /\ pc'[m] = pc[m]
            /\ stack'[m] = stack[m]
            /\ heap'[locals[m]] = heap[locals[m]]]_vars
  /\ [](\A m \in Machines :
          Finished(m) =>
            LET alone == RunAlone([stack |-> <<>>, pc |-> 0,
                                   locals |-> given[locals[m]], done |-> None,
                                   exc |-> "", wrote |-> FALSE], 0, limit[m])
            IN /\ phase[m] = alone.phase
               /\ phase[m] = "returned" => result[m] = alone.result)

\* C13: a store to a slot at or beyond the number of supplied inputs, with a
\* value on the stack, succeeds: pc advances by one and the slot holds the
\* value for a later load.
C13_StoreBeyondInputs ==
  [][\A m \in Machines :
       (/\ Dispatching(m, "store")
        /\ stack[m] # <<>>
        /\ bytecode[pc[m] + 1].index >= Len(given[locals[m]]))
         => /\ phase'[m] = "running"
            /\ pc'[m] = pc[m] + 1
            /\ Len(heap'[locals[m]]) > bytecode[pc[m] + 1].index
            /\ heap'[locals[m]][bytecode[pc[m] + 1].index + 1] = Head(stack[m])]_vars

\* The documentation's branch example, run with its inputs and the default
\* limit.
BranchExample ==
  <<Load(0), Load(1), IfGe(4), Push(1), Op("ireturn"), Push(0), Op("ireturn")>>
BranchExampleRun(m) ==
  /\ bytecode = BranchExample
  /\ given[locals[m]] = <<IntV(3), IntV(5)>>
  /\ limit[m] = DefaultLimit
  /\ Finished(m)

\* C14 as stated: the example with locals [3, 5] returns the outcome 0.
C14_ExampleReturnsZero ==
  \A m \in Machines :
    BranchExampleRun(m) => (phase[m] = "returned" /\ result[m] = Val(IntV(0)))

\* C14 amended: the example with locals [3, 5] returns the outcome 1 (3 >= 5
\* is false, the branch is not taken, push 1 and ireturn follow).
C14_ExampleReturnsOne ==
  \A m \in Machines :
    BranchExampleRun(m) => (phase[m] = "returned" /\ result[m] = Val(IntV(1)))

C14_Witness ==
  \E m \in Machines :
    /\ BranchExampleRun(m)
    /\ result[m] = Val(IntV(1))
    /\ dispatches[m] = 5
    /\ pc[m] = 4

\* C15: if_icmpge on at least two integers pops a (top) then b and sets pc to
\* the jump target when b >= a, to pc + 1 otherwise; the stack loses exactly
\* these two elements, locals are unchanged and no outcome is set.
C15_IfIcmpge ==
  [][\A m \in Machines :
       (/\ Dispatching(m, "if_icmpge")
        /\ Len(stack[m]) >= 2
        /\ stack[m][1].t = "int"
        /\ stack[m][2].t = "int")
         => LET a == stack[m][1].n
                b == stack[m][2].n
            IN /\ pc'[m] = IF b >= a THEN bytecode[pc[m] + 1].target ELSE pc[m] + 1
               /\ stack'[m] = SubSeq(stack[m], 3, Len(stack[m]))
               /\ heap' = heap
               /\ done'[m] = done[m]
               /\ outcomes'[m] = outcomes[m]
               /\ phase'[m] = "running"]_vars

\* The branch was taken on equal operands, to a target other than pc + 1.
C15_Witness ==
  \E m \in Machines :
    /\ dispatches[m] = 3
    /\ Len(bytecode) = 3
    /\ bytecode[3] = IfGe(0)
    /\ before[m].pc = 2
    /\ Len(before[m].stack) = 2
    /\ before[m].stack[1] = before[m].stack[2]
    /\ pc[m] = 0
    /\ stack[m] = <<>>

\* C16: on the divide-by-zero path nothing is pushed: the stack is the stack
\* before the dispatch without the two popped operands, locals are
\* unchanged, and pc is advanced by exactly one.
C16_DivideByZeroFrame ==
  [][\A m \in Machines :
       (/\ Dispatching(m, "divide")
        /\ Len(stack[m]) >= 2
        /\ stack[m][1].n = 0)
         => /\ stack'[m] = SubSeq(stack[m], 3, Len(stack[m]))
            /\ heap' = heap
            /\ pc'[m] = pc[m] + 1]_vars

C16_Witness ==
  \E m \in Machines :
    /\ result[m] = Str("divide by zero")
    /\ Len(bytecode) = 3
    /\ bytecode[3] = Op("divide")
    /\ before[m].stack = <<IntV(0), IntV(-MaxInt)>>
    /\ stack[m] = <<>>
    /\ pc[m] = 3

C18_LocalsFixedSize ==
  /\ [](\A m \in Machines : Len(heap[locals[m]]) = Len(given[locals[m]]))
  /\ [][\A m \in Machines :
          IF Dispatching(m, "store")
          THEN /\ Len(heap'[locals[m]]) = Len(heap[locals[m]])
               /\ \A j \in 1..Len(heap[locals[m]]) :
                    j # bytecode[pc[m] + 1].index + 1
                      => heap'[locals[m]][j] = heap[locals[m]][j]
          ELSE heap'[locals[m]] = heap[locals[m]]]_vars

\* A value loaded from slot 0 was stored into slot 1; slot 0 kept its value.
C18_Witness ==
  \E m \in Machines :
    /\ bytecode = <<Load(0), Store(1), Load(0)>>
    /\ dispatches[m] = 3
    /\ given[locals[m]] = <<BoolV(FALSE), IntV(MaxInt)>>
    /\ heap[locals[m]] = <<BoolV(FALSE), BoolV(FALSE)>>
    /\ stack[m] = <<BoolV(FALSE)>>

\* C19: when the dispatch made on the last permitted iteration (the
\* limit-th, limit >= 1) sets an outcome, interpret returns that outcome and
\* not "out of time".
C19_OutcomeOnLastIteration ==
  [][\A m \in Machines :
       (/\ phase[m] = "running"
        /\ limit[m] >= 1
        /\ dispatches'[m] = dispatches[m] + 1
        /\ dispatches'[m] = limit[m]
        /\ outcomes'[m] = outcomes[m] + 1)
         => /\ phase'[m] = "returned"
            /\ result'[m] = done'[m]
            /\ result'[m] # OutOfTimeStr]_vars

\* C20: interpret called again on an interpreter whose previous call
\* returned dispatches nothing, leaves pc, stack and locals unchanged and
\* returns what the first call returned.
C20_FinishedIsInert ==
  [][\A m \in Machines :
       earlier[m] # None
         => /\ dispatches'[m] = dispatches[m]
            /\ pc'[m] = pc[m]
            /\ stack'[m] = stack[m]
            /\ heap' = heap
            /\ phase'[m] # "raised"
            /\ phase'[m] = "returned" => result'[m] = earlier[m]]_vars

====
